---- MODULE Spec2Model ----
(***************************************************************************)
(* Model of the collaboration server of backend/index.js: the upgrade      *)
(* gateway, getYDoc, WSSharedDoc (load, addConnection, removeConnection,   *)
(* the two broadcast handlers), the message / close / error listeners and  *)
(* the debounced persistence of saveYDoc.                                  *)
(*                                                                         *)
(* The Yjs document is a grow-only set of update identifiers: applyUpdate  *)
(* is set union, an update being kept pending until the earlier updates of *)
(* its client are there; encodeStateAsUpdate is the whole set, the         *)
(* 'update' event fires only when a transaction added something.  The      *)
(* WSSharedDoc class is also taken by itself, one instance serving several *)
(* connections (SpecRoom), and one instance per room name for several      *)
(* rooms (SpecRooms).  The awareness instance                              *)
(* is the set of client ids that currently have a state.  Calls into yjs / *)
(* y-protocols / ws are taken by the contract the call site relies on.     *)
(*                                                                         *)
(* The Project collection is shared with POST /api/projects/join of        *)
(* backend/routes/project.js and the editor page builds the channel-open   *)
(* request (SpecProjects).                                                 *)
(***************************************************************************)
EXTENDS Integers, Sequences, FiniteSets, TLC

\* ---------------------------------------------------------------- bounds
MaxConns == 2      \* channel-open requests (one WebSocket each)
MaxRooms == 1      \* projects that exist in the Project collection
MaxDocs == 3       \* WSSharedDoc instances ever constructed
MaxTimers == 2     \* setTimeout handles alive at the same time
MaxUpdates == 2    \* local edits made by the clients altogether
MaxQueue == 2      \* messages in flight from one client to the server
MaxEvents == 2     \* client operations, closes and injected failures in one run

Conns == 1..MaxConns
Rooms == 1..MaxRooms
ProjectIds == 0..MaxRooms          \* well-formed ObjectIds; 0 has no project at start
Users == {1, 2}
Updates == 1..MaxUpdates
TimerIds == 1..MaxTimers
NoConn == 0                        \* origin that is not a connection
NoDoc == 0
NoTimer == 0

VARIABLES
    projects,       \* Project collection: _id -> the stored document
    joinLog,        \* history of POST /api/projects/join: the number of
                    \* requests answered, the last one, the joins that succeeded
    request,        \* per connection: the upgrade request and its progress
    status,         \* per connection: status line written on the socket
    ws,             \* per connection: the server-side WebSocket object
    inbox,          \* per connection: messages in flight client -> server
    outbox,         \* per connection: messages in flight server -> client
    replica,        \* per connection: content of the client's Y.Doc
    clientAw,       \* per connection: presence ids the client knows of
    wsdocs,         \* every WSSharedDoc constructed so far
    docs,           \* the `docs` map: room -> instance
    debouncedSave,  \* the `debouncedSave` map: room -> timer handle
    timers,         \* timer handles: free / armed / writing
    store,          \* YjsDoc collection: room -> [has, data]
    nextUpd,        \* next fresh update identifier
    author,         \* per update: the connection whose client made it
    removeNoop,     \* history: removeConnection called on an unregistered connection
    removeCount,    \* history: calls that found the connection registered
    closeSeen,      \* history: the channel's close event was emitted
    localAw,        \* per connection: the client has set its presence state
    writeFailed,    \* history: a write to the store has failed
    sendFailed,     \* history: a conn.send to the connection has thrown
    caught,         \* history: the message listener's catch block has run
    events          \* client operations and failures so far

vars == <<projects, joinLog, request, status, ws, inbox, outbox, replica, clientAw,
          wsdocs, docs, debouncedSave, timers, store, nextUpd, author,
          removeNoop, removeCount, closeSeen, localAw, writeFailed,
          sendFailed, caught, events>>

hubVars == <<wsdocs, docs, ws, outbox, debouncedSave, timers, removeNoop,
             removeCount, sendFailed, caught>>

\* ------------------------------------------------------------- helpers
RemoveAt(s, i) ==
    IF i > Len(s) THEN s
    ELSE SubSeq(s, 1, i - 1) \o SubSeq(s, i + 1, Len(s))

NoRequest == [phase |-> "idle", tok |-> "none", pidKind |-> "none",
              pid |-> 0, user |-> 1]

NoWs == [roomId |-> 0, userId |-> 0, readyState |-> "NONE",
         listening |-> FALSE, doc |-> NoDoc, sendFails |-> FALSE]

\* `sched` records what had been applied to the documents of the room
\* when the timer was set.
FreeTimer == [st |-> "free", doc |-> NoDoc, room |-> 0, data |-> {},
              sched |-> {}]

Msg(t, u, a, r) == [type |-> t, upd |-> u, add |-> a, rem |-> r]

\* ----------------------------------------------------------- the state
\* The hub state threaded through the handlers below.
Hub == [wsdocs |-> wsdocs, docs |-> docs, ws |-> ws, outbox |-> outbox,
        debouncedSave |-> debouncedSave, timers |-> timers,
        removeNoop |-> removeNoop, removeCount |-> removeCount,
        sendFailed |-> sendFailed, caught |-> caught, ok |-> TRUE]

SetHub(H) ==
    /\ H.ok
    /\ wsdocs' = H.wsdocs
    /\ docs' = H.docs
    /\ ws' = H.ws
    /\ outbox' = H.outbox
    /\ debouncedSave' = H.debouncedSave
    /\ timers' = H.timers
    /\ removeNoop' = H.removeNoop
    /\ removeCount' = H.removeCount
    /\ sendFailed' = H.sendFailed
    /\ caught' = H.caught

\* conns of an instance: sequence (insertion order of the Map) of
\* [conn, ids] entries.
ConnsOf(H, d) == {H.wsdocs[d].conns[i].conn : i \in 1..Len(H.wsdocs[d].conns)}

IndexOf(H, d, c) ==
    CHOOSE i \in 1..Len(H.wsdocs[d].conns) : H.wsdocs[d].conns[i].conn = c

IdsOf(H, d, c) == H.wsdocs[d].conns[IndexOf(H, d, c)].ids

\* conn.send(buffer): throws when the socket's send fails; a socket that
\* is no longer open delivers nothing.
SendThrows(H, c) == H.ws[c].sendFails

Send(H, c, m) ==
    IF H.ws[c].readyState = "OPEN"
    THEN [H EXCEPT !.outbox[c] = Append(@, m)]
    ELSE H

\* The catch block of a conn.send is entered for connection c.
Thrown(H, c) == [H EXCEPT !.sendFailed[c] = TRUE]

\* clearTimeout that cancels the pending timers of every room.
clearTimeoutAnyRoom(H, room) ==
    [t \in TimerIds |-> IF H.timers[t].st = "armed" THEN FreeTimer
                        ELSE H.timers[t]]

\* clearTimeout(debouncedSave.get(roomName)) of saveYDoc: the timers after
\* the room's pending one, if any, is cancelled.
clearTimeout(H, room) ==
    LET old == H.debouncedSave[room]
    IN IF old # NoTimer /\ H.timers[old].st = "armed"
       THEN [H.timers EXCEPT ![old] = FreeTimer]
       ELSE H.timers

\* saveYDoc that returns at once for a document nobody is connected to.
saveYDocIfConnected(H, d) ==
    IF H.wsdocs[d].conns = <<>> THEN H
    ELSE
    LET room == H.wsdocs[d].name
        cleared == clearTimeout(H, room)
        free == {t \in TimerIds : cleared[t].st = "free"}
    IN IF free = {} THEN [H EXCEPT !.ok = FALSE]
       ELSE LET t == CHOOSE x \in free : \A y \in free : x <= y
            IN [H EXCEPT !.timers = [cleared EXCEPT ![t] =
                                [st |-> "armed", doc |-> d, room |-> room,
                                 data |-> {},
                                 sched |-> UNION {H.wsdocs[e].content :
                                             e \in {x \in 1..Len(H.wsdocs) :
                                                      H.wsdocs[x].name = room}}]],
                         !.debouncedSave[room] = t]

\* saveYDoc(doc)
saveYDoc(H, d) ==
    LET room == H.wsdocs[d].name
        cleared == clearTimeout(H, room)
        free == {t \in TimerIds : cleared[t].st = "free"}
    IN IF free = {} THEN [H EXCEPT !.ok = FALSE]
       ELSE LET t == CHOOSE x \in free : \A y \in free : x <= y
            IN [H EXCEPT !.timers = [cleared EXCEPT ![t] =
                                [st |-> "armed", doc |-> d, room |-> room,
                                 data |-> {},
                                 sched |-> UNION {H.wsdocs[e].content :
                                             e \in {x \in 1..Len(H.wsdocs) :
                                                      H.wsdocs[x].name = room}}]],
                         !.debouncedSave[room] = t]

RECURSIVE removeConnection(_, _, _)
RECURSIVE Fanout(_, _, _, _, _)
RECURSIVE awarenessUpdateHandler(_, _, _, _, _, _)

\* this.conns.forEach(...) of both broadcast handlers: `order` is the Map's
\* entry order when the loop starts, entries deleted meanwhile are skipped.
Fanout(H, d, order, m, origin) ==
    IF order = <<>> THEN H
    ELSE LET c == Head(order)
             H1 == IF c \notin ConnsOf(H, d) \/ c = origin THEN H
                   ELSE IF SendThrows(H, c)
                   THEN removeConnection(Thrown(H, c), d, c)
                   ELSE Send(H, c, m)
         IN Fanout(H1, d, Tail(order), m, origin)

ConnOrder(H, d) == [i \in 1..Len(H.wsdocs[d].conns) |-> H.wsdocs[d].conns[i].conn]

\* _awarenessUpdateHandler without the `conn !== connOrigin` test.
awarenessUpdateHandlerEcho(H, d, added, updated, removed, origin) ==
    LET H1 == IF origin # NoConn /\ origin \in ConnsOf(H, d)
              THEN [H EXCEPT !.wsdocs[d].conns[IndexOf(H, d, origin)].ids =
                                (@ \cup added) \ removed]
              ELSE H
        m == Msg("aw", {}, added \cup updated, removed)
    IN Fanout(H1, d, ConnOrder(H1, d), m, NoConn)

\* WSSharedDoc._awarenessUpdateHandler({added, updated, removed}, connOrigin)
awarenessUpdateHandler(H, d, added, updated, removed, origin) ==
    LET H1 == IF origin # NoConn /\ origin \in ConnsOf(H, d)
              THEN [H EXCEPT !.wsdocs[d].conns[IndexOf(H, d, origin)].ids =
                                (@ \cup added) \ removed]
              ELSE H
        m == Msg("aw", {}, added \cup updated, removed)
    IN Fanout(H1, d, ConnOrder(H1, d), m, origin)

\* removeAwarenessStates that deletes the states without emitting 'update'.
removeAwarenessStatesSilent(H, d, ids, origin) ==
    [H EXCEPT !.wsdocs[d].awareness = @ \ (ids \cap H.wsdocs[d].awareness)]

\* awarenessProtocol.removeAwarenessStates(awareness, clients, origin)
removeAwarenessStates(H, d, ids, origin) ==
    LET removed == ids \cap H.wsdocs[d].awareness
        H1 == [H EXCEPT !.wsdocs[d].awareness = @ \ removed]
    IN IF removed = {} THEN H1
       ELSE awarenessUpdateHandler(H1, d, {}, {}, removed, origin)

\* conn.close(...) called whatever the socket's readyState is: a close
\* frame goes out with every call.
closeAlways(H, c) ==
    [H EXCEPT !.ws[c].readyState = "CLOSING",
              !.outbox[c] = Append(@, Msg("close", {}, {}, {}))]

\* The last block of removeConnection: conn.close(1000, ...) unless the
\* socket is closed or closing.
closeUnlessClosed(H, c) ==
    IF H.ws[c].readyState \notin {"CLOSED", "CLOSING"}
    THEN [H EXCEPT !.ws[c].readyState = "CLOSING"]
    ELSE H

\* removeConnection without the `this.conns.has(conn)` test.
removeConnectionUnguarded(H, d, c) ==
    LET present == c \in ConnsOf(H, d)
        controlledIds == IF present THEN IdsOf(H, d, c) ELSE {}
        H2 == [H EXCEPT !.wsdocs[d].conns =
                            IF present THEN RemoveAt(@, IndexOf(H, d, c)) ELSE @,
                        !.removeNoop[c] = @ \/ ~present,
                        !.removeCount[c] = @ + 1]
        H1 == IF controlledIds # {}
              THEN removeAwarenessStates(H2, d, controlledIds, NoConn)
              ELSE H2
    IN IF H1.ws[c].readyState \notin {"CLOSED", "CLOSING"}
       THEN [H1 EXCEPT !.ws[c].readyState = "CLOSING"]
       ELSE H1

\* WSSharedDoc.removeConnection(conn)
removeConnection(H, d, c) ==
    LET H0 == [H EXCEPT !.removeNoop[c] = @ \/ c \notin ConnsOf(H, d)]
        H1 == IF c \in ConnsOf(H0, d)
              THEN LET controlledIds == IdsOf(H0, d, c)
                       H2 == [H0 EXCEPT
                                !.wsdocs[d].conns = RemoveAt(@, IndexOf(H0, d, c)),
                                !.removeCount[c] = @ + 1]
                   IN IF controlledIds # {}
                      THEN removeAwarenessStates(H2, d, controlledIds, NoConn)
                      ELSE H2
              ELSE H0
    IN closeUnlessClosed(H1, c)

\* _updateHandler without the `conn !== origin` test.
updateHandlerEcho(H, d, update, origin) ==
    Fanout(H, d, ConnOrder(H, d), Msg("update", update, {}, {}), NoConn)

\* WSSharedDoc._updateHandler(update, origin)
updateHandler(H, d, update, origin) ==
    Fanout(H, d, ConnOrder(H, d), Msg("update", update, {}, {}), origin)

\* The updates of `cand` a document holding `content` can integrate: those
\* whose earlier updates of the same client are at hand.
Integrable(content, cand) ==
    {u \in cand : \A v \in Updates :
                     (v < u /\ author[v] = author[u]) => v \in content \cup cand}

\* Y.applyUpdate that integrates whatever it is given.
applyUpdateUnordered(H, d, update, origin) ==
    LET new == update \ H.wsdocs[d].content
    IN IF new = {} THEN H
       ELSE LET H1 == [H EXCEPT !.wsdocs[d].content = @ \cup new]
            IN saveYDoc(updateHandler(H1, d, new, origin), d)

\* Y.applyUpdate(doc, update, origin) with the 'update' listener of the
\* constructor: _updateHandler, then saveYDoc.  An update that misses an
\* earlier update of its client is kept pending and integrated with it.
applyUpdate(H, d, update, origin) ==
    LET cand == (update \cup H.wsdocs[d].pending) \ H.wsdocs[d].content
        new == Integrable(H.wsdocs[d].content, cand)
        H0 == [H EXCEPT !.wsdocs[d].pending = cand \ new]
    IN IF new = {} THEN H0
       ELSE LET H1 == [H0 EXCEPT !.wsdocs[d].content = @ \cup new]
            IN saveYDoc(updateHandler(H1, d, new, origin), d)

\* applyAwarenessUpdate that reports every entry it sets as added.
applyAwarenessUpdateAllAdded(H, d, m, origin) ==
    LET cur == H.wsdocs[d].awareness
        added == m.add
        updated == {}
        removed == (m.rem \ m.add) \cap cur
        H1 == [H EXCEPT !.wsdocs[d].awareness = (cur \cup m.add) \ removed]
    IN IF added \cup updated \cup removed = {} THEN H1
       ELSE awarenessUpdateHandler(H1, d, added, updated, removed, origin)

\* awarenessProtocol.applyAwarenessUpdate(awareness, update, origin)
applyAwarenessUpdate(H, d, m, origin) ==
    LET cur == H.wsdocs[d].awareness
        added == m.add \ cur
        updated == m.add \cap cur
        removed == (m.rem \ m.add) \cap cur
        H1 == [H EXCEPT !.wsdocs[d].awareness = (cur \cup m.add) \ removed]
    IN IF added \cup updated \cup removed = {} THEN H1
       ELSE awarenessUpdateHandler(H1, d, added, updated, removed, origin)

\* new WSSharedDoc(name): empty document, no state in the awareness, no
\* connection, load started.  `by` is the connection whose event made it,
\* `loadError` records that loadPersistedData logged an error.
NewDoc(room, c) ==
    [name |-> room, content |-> {}, awareness |-> {}, conns |-> <<>>,
     isLoaded |-> FALSE, waiters |-> <<>>, by |-> c, loadError |-> FALSE,
     pending |-> {}]

\* getYDoc(docname): the instance it returns is Len(result.wsdocs).
getYDoc(H, room, c) ==
    LET oldDoc == H.docs[room]
        H1 == IF oldDoc = NoDoc THEN H
              ELSE LET t == H.debouncedSave[room]
                   IN [H EXCEPT
                        !.ws = [x \in Conns |->
                                  IF x \in ConnsOf(H, oldDoc)
                                     /\ H.ws[x].readyState = "OPEN"
                                  THEN [H.ws[x] EXCEPT !.readyState = "CLOSING"]
                                  ELSE H.ws[x]],
                        !.docs[room] = NoDoc,
                        !.timers = IF t # NoTimer /\ H.timers[t].st = "armed"
                                   THEN [H.timers EXCEPT ![t] = FreeTimer]
                                   ELSE H.timers,
                        !.debouncedSave[room] = NoTimer]
    IN IF Len(H1.wsdocs) >= MaxDocs THEN [H1 EXCEPT !.ok = FALSE]
       ELSE [H1 EXCEPT !.wsdocs = Append(@, NewDoc(room, c))]

\* addConnection that sends the awareness snapshot ahead of sync step 1
\* and whatever becomes of that send.
addConnectionSnapshotFirst(H, d, c, encodeFails, snapshotFails) ==
    LET H1 == [H EXCEPT !.wsdocs[d].conns = Append(@, [conn |-> c, ids |-> {}])]
        states == H1.wsdocs[d].awareness
        H3 == IF states = {} THEN H1
              ELSE IF snapshotFails THEN Thrown(H1, c)
              ELSE Send(H1, c, Msg("aw", {}, states, {}))
        H2 == IF encodeFails THEN removeConnection(H3, d, c)
              ELSE IF SendThrows(H3, c)
              THEN removeConnection(Thrown(H3, c), d, c)
              ELSE Send(H3, c, Msg("step1", H3.wsdocs[d].content, {}, {}))
    IN [H2 EXCEPT !.ws[c].listening = TRUE]

\* WSSharedDoc.addConnection(conn, userId) after `await this.loadPromise`,
\* followed by the rest of the 'connection' handler (listeners attached).
\* snapshotFails: the send of the awareness snapshot throws although the
\* send before it went through.
addConnection(H, d, c, encodeFails, snapshotFails) ==
    LET H1 == [H EXCEPT !.wsdocs[d].conns = Append(@, [conn |-> c, ids |-> {}])]
        H2 == IF encodeFails THEN removeConnection(H1, d, c)
              ELSE IF SendThrows(H1, c)
              THEN removeConnection(Thrown(H1, c), d, c)
              ELSE LET H3 == Send(H1, c, Msg("step1", H1.wsdocs[d].content, {}, {}))
                       states == H3.wsdocs[d].awareness
                   IN IF states = {} THEN H3
                      ELSE IF snapshotFails THEN Thrown(H3, c)
                      ELSE Send(H3, c, Msg("aw", {}, states, {}))
    IN [H2 EXCEPT !.ws[c].listening = TRUE]

RECURSIVE addWaiters(_, _, _, _)
addWaiters(H, d, waiters, encodeFails) ==
    IF waiters = <<>> THEN H
    ELSE addWaiters(addConnection(H, d, Head(waiters), encodeFails, FALSE),
                    d, Tail(waiters), encodeFails)

\* messageListener whose catch block only logs.
messageListenerLogsOnly(H, c, m) ==
    LET ydoc == H.ws[c].doc
    IN CASE m.type = "step1" -> H
         [] m.type \in {"step2", "update"} -> applyUpdate(H, ydoc, m.upd, c)
         [] m.type = "aw" -> applyAwarenessUpdate(H, ydoc, m, c)
         [] OTHER -> [H EXCEPT !.caught[c] = TRUE]

\* messageListener(messageBuffer) of the 'connection' handler; ydoc is the
\* instance captured when the connection was set up.
messageListener(H, c, m) ==
    LET ydoc == H.ws[c].doc
    IN CASE m.type = "step1" -> H
         [] m.type \in {"step2", "update"} -> applyUpdate(H, ydoc, m.upd, c)
         [] m.type = "aw" -> applyAwarenessUpdate(H, ydoc, m, c)
         [] OTHER -> removeConnection([H EXCEPT !.caught[c] = TRUE], ydoc, c)

\* closeListener / errorListener: both fetch the instance with getYDoc and
\* remove the connection only when that instance tracks it.
closeListener(H, c) ==
    LET H1 == getYDoc(H, H.ws[c].roomId, c)
        doc == Len(H1.wsdocs)
    IN IF H1.ok /\ c \in ConnsOf(H1, doc) THEN removeConnection(H1, doc, c)
       ELSE H1

\* checkUserPermission without the test of the `users` array.
checkUserPermissionAnyUser(user, pid, dbError) ==
    IF dbError THEN FALSE ELSE projects[pid].exists

\* checkUserPermission(userId, projectObjectId)
checkUserPermission(user, pid, dbError) ==
    IF dbError THEN FALSE
    ELSE IF ~projects[pid].exists THEN FALSE
    ELSE user \in projects[pid].users

\* The 'upgrade' handler answering a failed jwt.verify like a bad request.
UpgradeStatusTokenAs400(tok, pidKind) ==
    IF tok = "none" \/ pidKind = "none" THEN 400
    ELSE IF tok = "bad" THEN 400
    ELSE IF tok = "noid" THEN 401
    ELSE IF pidKind = "malformed" THEN 400
    ELSE 0

\* The status line the synchronous part of the 'upgrade' handler writes,
\* 0 when the request goes on to the permission check.
UpgradeStatus(tok, pidKind) ==
    IF tok = "none" \/ pidKind = "none" THEN 400
    ELSE IF tok = "bad" THEN 401
    ELSE IF tok = "noid" THEN 401
    ELSE IF pidKind = "malformed" THEN 400
    ELSE 0

ForbiddenStatus == 403
SwitchingProtocols == 101

\* The requests a client can make: a token that is missing, does not
\* verify, verifies without a usable id, or verifies for a user; a project
\* id that is missing, malformed, or a well-formed ObjectId.
AllRequests ==
    {rq \in [tok : {"none", "bad", "noid", "ok"},
             pidKind : {"none", "malformed", "valid"},
             pid : ProjectIds, user : Users] :
        /\ rq.pidKind # "valid" => rq.pid = 0
        /\ rq.tok # "ok" => rq.user = 1}

\* Requests of project members with a valid token.
MemberRequests ==
    {rq \in AllRequests : /\ rq.tok = "ok" /\ rq.pidKind = "valid"
                          /\ projects[rq.pid].exists
                          /\ rq.user \in projects[rq.pid].users}

\* ------------------------------------------------- Project collection
\* Strings a client can type as project name or id: the hex form of an
\* ObjectId (mongoose.Types.ObjectId.isValid) or any other text; NoString
\* is the empty string.
Str(form, val) == [form |-> form, val |-> val]
NoString == Str("none", 0)
Inputs == {Str(f, v) : f \in {"oid", "name"}, v \in ProjectIds}
Passwords == {1, 2}
NoPassword == 0
None == -1

\* bcrypt.hash / bcrypt.compare: the hash is not the password, and compare
\* accepts the password the hash was made from.
bcryptHash(pw) == pw + 10
bcryptCompare(pw, hash) == hash = pw + 10

\* A document of the Project collection holds the paths of ProjectSchema:
\* projectId (unique), password, users.
NoProject == [exists |-> FALSE, users |-> {}, projectId |-> NoString,
              password |-> 0]

NoJoin == [user |-> 0, tok |-> "none", input |-> NoString,
           password |-> NoPassword, dbError |-> FALSE, status |-> 0,
           pid |-> None]

\* Project.findById(userInput) of the join route, for an input that is a
\* valid ObjectId.
findById(inp) ==
    IF inp.form = "oid" /\ projects[inp.val].exists THEN inp.val ELSE None

\* Project.findOne({ name: userInput }): ProjectSchema has no path `name`.
\* With strictQuery the filter is stripped and the query matches every
\* document, without it the filter matches no stored document.
findOneByName(inp, strictQuery) ==
    IF strictQuery THEN {p \in ProjectIds : projects[p].exists} ELSE {}

\* The handler of POST /api/projects/join after authMiddleware and the
\* validators: the status it answers, the collection it leaves and the _id
\* it reports.  `first` is the document findOne returns, `fresh` the _id
\* of a document saved for the first time.
join(u, inp, pw, first, fresh, dbError) ==
    LET byId == findById(inp)
        found == IF byId # None THEN byId ELSE first
        taken == \E p \in ProjectIds : /\ projects[p].exists
                                        /\ projects[p].projectId = inp
    IN IF dbError
       THEN [status |-> 500, projects |-> projects, pid |-> None]
       ELSE IF found # None
       THEN IF ~bcryptCompare(pw, projects[found].password)
            THEN [status |-> 400, projects |-> projects, pid |-> None]
            \* project.members is no path of the schema: undefined, and
            \* project.members.push throws a TypeError caught as 500
            ELSE [status |-> 500, projects |-> projects, pid |-> None]
       \* new Project({name, projectId, password, owner, members}): the
       \* paths outside the schema are dropped, users starts empty; save
       \* fails on the unique index of projectId
       ELSE IF taken
       THEN [status |-> 500, projects |-> projects, pid |-> None]
       ELSE [status |-> 201,
             projects |-> IF fresh = None THEN projects
                          ELSE [projects EXCEPT ![fresh] =
                                  [exists |-> TRUE, users |-> {},
                                   projectId |-> inp,
                                   password |-> bcryptHash(pw)]],
             pid |-> fresh]

\* -------------------------------------------------------------- Init
Init ==
    /\ projects = [p \in ProjectIds |->
                     IF p = 0 THEN NoProject
                     ELSE [exists |-> TRUE, users |-> {1},
                           projectId |-> Str("name", p),
                           password |-> bcryptHash(1)]]
    /\ joinLog = [n |-> 0, last |-> NoJoin, ok |-> {}]
    /\ request = [c \in Conns |-> NoRequest]
    /\ status = [c \in Conns |-> 0]
    /\ ws = [c \in Conns |-> NoWs]
    /\ inbox = [c \in Conns |-> <<>>]
    /\ outbox = [c \in Conns |-> <<>>]
    /\ replica = [c \in Conns |-> {}]
    /\ clientAw = [c \in Conns |-> {}]
    /\ wsdocs = <<>>
    /\ docs = [r \in ProjectIds |-> NoDoc]
    /\ debouncedSave = [r \in ProjectIds |-> NoTimer]
    /\ timers = [t \in TimerIds |-> FreeTimer]
    /\ store = [r \in ProjectIds |-> [has |-> FALSE, data |-> {}]]
    /\ nextUpd = 1
    /\ author = [u \in Updates |-> NoConn]
    /\ removeNoop = [c \in Conns |-> FALSE]
    /\ removeCount = [c \in Conns |-> 0]
    /\ closeSeen = [c \in Conns |-> FALSE]
    /\ localAw = [c \in Conns |-> FALSE]
    /\ writeFailed = FALSE
    /\ sendFailed = [c \in Conns |-> FALSE]
    /\ caught = [c \in Conns |-> FALSE]
    /\ events = 0

\* A client operation, a close or a failure happens only while the budget
\* lasts.
Event(b) ==
    /\ b => events < MaxEvents
    /\ events' = IF b THEN events + 1 ELSE events

\* ------------------------------------------------------------ actions
\* An 'upgrade' handler whose failing checks write their status line and
\* do not return.
UpgradeNoReturn(c, rq) ==
        /\ request[c].phase = "idle"
        /\ \A b \in Conns : b < c => request[b].phase # "idle"
        /\ LET st == UpgradeStatus(rq.tok, rq.pidKind)
           IN /\ request' = [request EXCEPT ![c] =
                    [phase |-> IF st = 0 \/ rq.pidKind = "valid"
                               THEN "checking" ELSE "rejected",
                     tok |-> rq.tok, pidKind |-> rq.pidKind, pid |-> rq.pid,
                     user |-> rq.user]]
              /\ status' = [status EXCEPT ![c] = st]
        /\ UNCHANGED <<hubVars, projects, joinLog, writeFailed, inbox, replica, clientAw, store,
                       nextUpd, author, closeSeen, localAw, events>>

\* server.on('upgrade') up to `await checkUserPermission(...)`.  Requests
\* are numbered in the order they arrive.
Upgrade(c, rq) ==
        /\ request[c].phase = "idle"
        /\ \A b \in Conns : b < c => request[b].phase # "idle"
        /\ LET st == UpgradeStatus(rq.tok, rq.pidKind)
           IN /\ request' = [request EXCEPT ![c] =
                    [phase |-> IF st = 0 THEN "checking" ELSE "rejected",
                     tok |-> rq.tok, pidKind |-> rq.pidKind, pid |-> rq.pid,
                     user |-> rq.user]]
              /\ status' = [status EXCEPT ![c] = st]
        /\ UNCHANGED <<hubVars, projects, joinLog, writeFailed, inbox, replica, clientAw, store,
                       nextUpd, author, closeSeen, localAw, events>>

\* The rest of the 'upgrade' handler: 403, or the handshake followed by the
\* 'connection' handler up to `await this.loadPromise` in addConnection.
PermissionResult(c) ==
    \E dbError \in BOOLEAN :
        /\ request[c].phase = "checking"
        /\ Event(dbError)
        /\ LET rq == request[c]
           IN IF ~checkUserPermission(rq.user, rq.pid, dbError)
              THEN /\ request' = [request EXCEPT ![c].phase = "rejected"]
                   /\ status' = [status EXCEPT ![c] = ForbiddenStatus]
                   /\ UNCHANGED <<hubVars, inbox>>
              ELSE LET H0 == [Hub EXCEPT !.ws[c] =
                                [NoWs EXCEPT !.roomId = rq.pid,
                                             !.userId = rq.user,
                                             !.readyState = "OPEN"]]
                       H1 == getYDoc(H0, rq.pid, c)
                       ydoc == Len(H1.wsdocs)
                       H2 == [H1 EXCEPT !.ws[c].doc = ydoc]
                       H3 == IF ~H2.ok THEN H2
                             ELSE IF H2.wsdocs[ydoc].isLoaded
                             THEN addConnection(H2, ydoc, c, FALSE, FALSE)
                             ELSE [H2 EXCEPT !.wsdocs[ydoc].waiters = Append(@, c)]
                   IN /\ SetHub(H3)
                      /\ request' = [request EXCEPT ![c].phase = "accepted"]
                      /\ status' = [status EXCEPT ![c] = SwitchingProtocols]
                      /\ UNCHANGED inbox
        /\ UNCHANGED <<projects, joinLog, writeFailed, replica, clientAw, store, nextUpd, author, closeSeen,
                       localAw>>

\* loadPersistedData that lets the error of findOne escape: loadPromise
\* rejects, isLoaded stays false and the waiting addConnection calls throw.
LoadFinishRejects(d) ==
    \E findFails \in BOOLEAN, applyFails \in BOOLEAN, encodeFails \in BOOLEAN :
        /\ d \in 1..Len(wsdocs)
        /\ ~wsdocs[d].isLoaded
        /\ applyFails => (~findFails /\ store[wsdocs[d].name].has)
        /\ (wsdocs[d].waiters = <<>>) => ~encodeFails
        /\ Event(findFails \/ applyFails \/ encodeFails)
        /\ LET dbDoc == store[wsdocs[d].name]
               H1 == IF ~findFails /\ ~applyFails /\ dbDoc.has
                     THEN applyUpdate(Hub, d, dbDoc.data, NoConn)
                     ELSE Hub
               H2 == [H1 EXCEPT !.wsdocs[d].isLoaded = ~findFails,
                                !.wsdocs[d].waiters = <<>>,
                                !.wsdocs[d].loadError = findFails \/ applyFails]
               H3 == IF findFails THEN H2
                     ELSE addWaiters(H2, d, wsdocs[d].waiters, encodeFails)
           IN /\ H1.ok
              /\ SetHub(H3)
        /\ UNCHANGED <<projects, joinLog, writeFailed, request, status, inbox, replica, clientAw,
                       store, nextUpd, author, closeSeen, localAw>>

\* loadPersistedData() completes: the stored blob is applied unless the
\* lookup or the apply throws, isLoaded is set in the finally block, and
\* every addConnection waiting on loadPromise continues.
LoadFinish(d) ==
    \E findFails \in BOOLEAN, applyFails \in BOOLEAN, encodeFails \in BOOLEAN :
        /\ d \in 1..Len(wsdocs)
        /\ ~wsdocs[d].isLoaded
        /\ applyFails => (~findFails /\ store[wsdocs[d].name].has)
        /\ (wsdocs[d].waiters = <<>>) => ~encodeFails
        /\ Event(findFails \/ applyFails \/ encodeFails)
        /\ LET dbDoc == store[wsdocs[d].name]
               H1 == IF ~findFails /\ ~applyFails /\ dbDoc.has
                     THEN applyUpdate(Hub, d, dbDoc.data, NoConn)
                     ELSE Hub
               H2 == [H1 EXCEPT !.wsdocs[d].isLoaded = TRUE,
                                !.wsdocs[d].waiters = <<>>,
                                !.wsdocs[d].loadError = findFails \/ applyFails]
               H3 == addWaiters(H2, d, wsdocs[d].waiters, encodeFails)
           IN /\ H1.ok
              /\ SetHub(H3)
        /\ UNCHANGED <<projects, joinLog, writeFailed, request, status, inbox, replica, clientAw,
                       store, nextUpd, author, closeSeen, localAw>>

\* A 'connection' handler that attaches the message listener before it
\* awaits addConnection.
DeliverEarly(c) ==
    /\ inbox[c] # <<>>
    /\ ws[c].readyState \in {"OPEN", "CLOSING"}
    /\ inbox' = [inbox EXCEPT ![c] = Tail(@)]
    /\ SetHub(messageListener(Hub, c, Head(inbox[c])))
    /\ UNCHANGED <<projects, joinLog, writeFailed, request, status, replica, clientAw, store,
                   nextUpd, author, closeSeen, localAw, events>>

\* A message from the client reaches the server socket: the 'message'
\* event has a listener only once the 'connection' handler has finished.
Deliver(c) ==
    /\ inbox[c] # <<>>
    /\ ws[c].readyState \in {"OPEN", "CLOSING"}
    /\ inbox' = [inbox EXCEPT ![c] = Tail(@)]
    /\ IF ws[c].listening
       THEN SetHub(messageListener(Hub, c, Head(inbox[c])))
       ELSE UNCHANGED hubVars
    /\ UNCHANGED <<projects, joinLog, writeFailed, request, status, replica, clientAw, store,
                   nextUpd, author, closeSeen, localAw, events>>

\* A timer callback that encodes the state vector in place of the state.
TimerFireStateVector(t) ==
    /\ timers[t].st = "armed"
    /\ timers' = [timers EXCEPT ![t].st = "writing", ![t].data = {}]
    /\ UNCHANGED <<projects, joinLog, writeFailed, request, status, ws, inbox, outbox, replica,
                   clientAw, wsdocs, docs, debouncedSave, store, nextUpd, author,
                   removeNoop, removeCount, closeSeen, localAw, sendFailed,
                   caught, events>>

\* The timer callback of saveYDoc up to `await findOneAndUpdate(...)`.
TimerFire(t) ==
    /\ timers[t].st = "armed"
    /\ timers' = [timers EXCEPT ![t].st = "writing",
                                ![t].data = wsdocs[timers[t].doc].content]
    /\ UNCHANGED <<projects, joinLog, writeFailed, request, status, ws, inbox, outbox, replica,
                   clientAw, wsdocs, docs, debouncedSave, store, nextUpd, author,
                   removeNoop, removeCount, closeSeen, localAw, sendFailed,
                   caught, events>>

\* A timer callback whose catch block arms the timer again.
WriteDoneRearms(t) ==
    \E writeFails \in BOOLEAN :
        /\ timers[t].st = "writing"
        /\ Event(writeFails)
        /\ store' = IF writeFails THEN store
                    ELSE [store EXCEPT ![timers[t].room] =
                            [has |-> TRUE, data |-> timers[t].data]]
        /\ debouncedSave' = IF writeFails THEN [debouncedSave EXCEPT ![timers[t].room] = t]
                            ELSE [debouncedSave EXCEPT ![timers[t].room] = NoTimer]
        /\ timers' = IF writeFails THEN [timers EXCEPT ![t].st = "armed"]
                     ELSE [timers EXCEPT ![t] = FreeTimer]
        /\ writeFailed' = (writeFailed \/ writeFails)
        /\ UNCHANGED <<projects, joinLog, request, status, ws, inbox, outbox, replica,
                       clientAw, wsdocs, docs, nextUpd, author, removeNoop,
                       removeCount, closeSeen, localAw, sendFailed, caught>>

\* findOneAndUpdate settles; the finally block deletes the map entry.
WriteDone(t) ==
    \E writeFails \in BOOLEAN :
        /\ timers[t].st = "writing"
        /\ Event(writeFails)
        /\ store' = IF writeFails THEN store
                    ELSE [store EXCEPT ![timers[t].room] =
                            [has |-> TRUE, data |-> timers[t].data]]
        /\ debouncedSave' = [debouncedSave EXCEPT ![timers[t].room] = NoTimer]
        /\ timers' = [timers EXCEPT ![t] = FreeTimer]
        /\ writeFailed' = (writeFailed \/ writeFails)
        /\ UNCHANGED <<projects, joinLog, request, status, ws, inbox, outbox, replica,
                       clientAw, wsdocs, docs, nextUpd, author, removeNoop,
                       removeCount, closeSeen, localAw, sendFailed, caught>>

\* The channel is closed: 'close' is emitted on the server socket.
ChannelClose(c) ==
    /\ ws[c].readyState \in {"OPEN", "CLOSING"}
    /\ LET H0 == [Hub EXCEPT !.ws[c].readyState = "CLOSED",
                             !.outbox[c] = <<>>]
       IN SetHub(IF ws[c].listening THEN closeListener(H0, c) ELSE H0)
    /\ inbox' = [inbox EXCEPT ![c] = <<>>]
    /\ closeSeen' = [closeSeen EXCEPT ![c] = TRUE]
    /\ Event(TRUE)
    /\ UNCHANGED <<projects, joinLog, writeFailed, request, status, replica, clientAw, store,
                   nextUpd, author, localAw>>

\* 'error' is emitted on the server socket; ws then closes the socket.
ChannelError(c) ==
    /\ ws[c].readyState = "OPEN"
    /\ Event(TRUE)
    /\ LET H0 == [Hub EXCEPT !.ws[c].readyState = "CLOSING"]
       IN SetHub(IF ws[c].listening THEN closeListener(H0, c) ELSE H0)
    /\ UNCHANGED <<projects, joinLog, writeFailed, request, status, inbox, replica, clientAw,
                   store, nextUpd, author, closeSeen, localAw>>

\* From now on conn.send throws for this socket.
SendBreaks(c) ==
    /\ ws[c].readyState = "OPEN"
    /\ ~ws[c].sendFails
    /\ Event(TRUE)
    /\ ws' = [ws EXCEPT ![c].sendFails = TRUE]
    /\ UNCHANGED <<projects, joinLog, writeFailed, request, status, inbox, outbox, replica,
                   clientAw, wsdocs, docs, debouncedSave, timers, store,
                   nextUpd, author, removeNoop, removeCount, closeSeen, localAw,
                   sendFailed, caught>>

\* ------------------------------------------------------------ clients
ClientOpen(c) == status[c] = SwitchingProtocols /\ ~closeSeen[c]

ClientSend(c, m) ==
    /\ ClientOpen(c)
    /\ Len(inbox[c]) < MaxQueue
    /\ inbox' = [inbox EXCEPT ![c] = Append(@, m)]

\* A local edit: a fresh update, applied locally and sent to the server.
ClientEdit(c) ==
    /\ nextUpd <= MaxUpdates
    /\ Event(TRUE)
    /\ ClientSend(c, Msg("update", {nextUpd}, {}, {}))
    /\ replica' = [replica EXCEPT ![c] = @ \cup {nextUpd}]
    /\ nextUpd' = nextUpd + 1
    /\ author' = [author EXCEPT ![nextUpd] = c]
    /\ UNCHANGED <<hubVars, projects, joinLog, writeFailed, request, status, clientAw, store,
                   closeSeen, localAw>>

\* The client sets or clears its own presence entry (its id is c).
ClientPresence(c) ==
    /\ ClientSend(c, IF localAw[c] THEN Msg("aw", {}, {}, {c})
                     ELSE Msg("aw", {}, {c}, {}))
    /\ localAw' = [localAw EXCEPT ![c] = ~@]
    /\ Event(TRUE)
    /\ UNCHANGED <<hubVars, projects, joinLog, writeFailed, request, status, replica, clientAw,
                   store, nextUpd, author, closeSeen>>

\* The client sends bytes the server cannot decode.
ClientBad(c) ==
    /\ Event(TRUE)
    /\ ClientSend(c, Msg("bad", {}, {}, {}))
    /\ UNCHANGED <<hubVars, projects, joinLog, writeFailed, request, status, replica, clientAw,
                   store, nextUpd, author, closeSeen, localAw>>

\* The client takes the next message of the server: it answers a sync
\* step 1 with a step 2, merges an update, records a presence diff.
ClientRecv(c) ==
    /\ outbox[c] # <<>>
    /\ LET m == Head(outbox[c])
       IN /\ outbox' = [outbox EXCEPT ![c] = Tail(@)]
          /\ IF m.type = "step1"
             THEN ClientSend(c, Msg("step2", replica[c] \ m.upd, {}, {}))
             ELSE UNCHANGED inbox
          /\ replica' = IF m.type \in {"step2", "update"}
                        THEN [replica EXCEPT ![c] = @ \cup m.upd]
                        ELSE replica
          /\ clientAw' = IF m.type = "aw"
                         THEN [clientAw EXCEPT ![c] = (@ \cup m.add) \ m.rem]
                         ELSE clientAw
    /\ UNCHANGED <<projects, joinLog, writeFailed, request, status, ws, wsdocs, docs,
                   debouncedSave, timers, store, nextUpd, author, removeNoop,
                   removeCount, closeSeen, localAw, sendFailed, caught,
                   events>>

\* Everything but the arrival of a channel-open request.
Run ==
    \/ \E c \in Conns : PermissionResult(c)
    \/ \E d \in 1..MaxDocs : LoadFinish(d)
    \/ \E c \in Conns : Deliver(c)
    \/ \E t \in TimerIds : TimerFire(t)
    \/ \E t \in TimerIds : WriteDone(t)
    \/ \E c \in Conns : ChannelClose(c)
    \/ \E c \in Conns : ChannelError(c)
    \/ \E c \in Conns : SendBreaks(c)
    \/ \E c \in Conns : ClientEdit(c)
    \/ \E c \in Conns : ClientPresence(c)
    \/ \E c \in Conns : ClientBad(c)
    \/ \E c \in Conns : ClientRecv(c)

\* The hub serving the members of the projects.
Next ==
    \/ \E c \in Conns, rq \in MemberRequests : Upgrade(c, rq)
    \/ Run

Spec == Init /\ [][Next]_vars

\* The hub facing every kind of channel-open request, with clients that
\* edit and leave.
NextGateway ==
    \/ \E c \in Conns, rq \in AllRequests : Upgrade(c, rq)
    \/ \E c \in Conns : PermissionResult(c)
    \/ \E d \in 1..MaxDocs : LoadFinish(d)
    \/ \E c \in Conns : Deliver(c)
    \/ \E t \in TimerIds : TimerFire(t)
    \/ \E t \in TimerIds : WriteDone(t)
    \/ \E c \in Conns : ChannelClose(c)
    \/ \E c \in Conns : ClientEdit(c)
    \/ \E c \in Conns : ClientRecv(c)

SpecGateway == Init /\ [][NextGateway]_vars

\* ------------------------------------------- WSSharedDoc by itself
\* One WSSharedDoc whose methods are called for several connections, the
\* use the class is written for (conns is a Map of connections).  The hub
\* of Spec never shares an instance, since getYDoc builds one per call.
TheRoom == 1
TheDoc == 1

\* A member's channel is set up with the instance: `new WSSharedDoc(name)`
\* for the first one, then `await ydoc.addConnection(ws, userId)` and the
\* message listener of the 'connection' handler.
Join(c) ==
    \E snapshotFails \in BOOLEAN :
        /\ request[c].phase = "idle"
        /\ \A b \in Conns : b < c => request[b].phase # "idle"
        /\ Event(snapshotFails)
        /\ snapshotFails => /\ Len(wsdocs) > 0
                            /\ wsdocs[TheDoc].isLoaded
                            /\ wsdocs[TheDoc].awareness # {}
        /\ LET H0 == [Hub EXCEPT !.ws[c] =
                        [NoWs EXCEPT !.roomId = TheRoom, !.userId = 1,
                                     !.readyState = "OPEN", !.doc = TheDoc]]
               H1 == IF Len(wsdocs) = 0
                     THEN [H0 EXCEPT !.wsdocs = <<NewDoc(TheRoom, c)>>]
                     ELSE H0
               H2 == IF H1.wsdocs[TheDoc].isLoaded
                     THEN addConnection(H1, TheDoc, c, FALSE, snapshotFails)
                     ELSE [H1 EXCEPT !.wsdocs[TheDoc].waiters = Append(@, c)]
           IN SetHub(H2)
        /\ request' = [request EXCEPT ![c] =
                          [phase |-> "accepted", tok |-> "ok",
                           pidKind |-> "valid", pid |-> TheRoom, user |-> 1]]
        /\ status' = [status EXCEPT ![c] = SwitchingProtocols]
        /\ UNCHANGED <<projects, joinLog, writeFailed, inbox, replica, clientAw, store,
                       nextUpd, author, closeSeen, localAw>>

\* The channel closes and removeConnection(conn) is called on the
\* instance that serves it.
Leave(c) ==
    /\ ws[c].readyState \in {"OPEN", "CLOSING"}
    /\ ws[c].listening
    /\ Event(TRUE)
    /\ SetHub(removeConnection([Hub EXCEPT !.ws[c].readyState = "CLOSED",
                                           !.outbox[c] = <<>>],
                               ws[c].doc, c))
    /\ inbox' = [inbox EXCEPT ![c] = <<>>]
    /\ closeSeen' = [closeSeen EXCEPT ![c] = TRUE]
    /\ UNCHANGED <<projects, joinLog, writeFailed, request, status, replica, clientAw,
                   store, nextUpd, author, localAw>>

NextRoom ==
    \/ \E c \in Conns : Join(c)
    \/ \E c \in Conns : Leave(c)
    \/ \E d \in 1..MaxDocs : LoadFinish(d)
    \/ \E c \in Conns : Deliver(c)
    \/ \E t \in TimerIds : TimerFire(t)
    \/ \E t \in TimerIds : WriteDone(t)
    \/ \E c \in Conns : SendBreaks(c)
    \/ \E c \in Conns : ClientEdit(c)
    \/ \E c \in Conns : ClientPresence(c)
    \/ \E c \in Conns : ClientBad(c)
    \/ \E c \in Conns : ClientRecv(c)

SpecRoom == Init /\ [][NextRoom]_vars

\* -------------------------------------- one WSSharedDoc per room name
\* Several rooms, each served by the one WSSharedDoc constructed for its
\* name and shared by the connections opened for it; docs, debouncedSave
\* and the YjsDoc collection are keyed by the name.
DocOf(r) ==
    IF \E d \in 1..Len(wsdocs) : wsdocs[d].name = r
    THEN CHOOSE d \in 1..Len(wsdocs) : wsdocs[d].name = r
    ELSE NoDoc

\* A channel for room r is set up: `new WSSharedDoc(r)` if r has no
\* instance yet, then `await ydoc.addConnection(ws, userId)` and the
\* message listener of the 'connection' handler.
JoinRoom(c, r) ==
    \E snapshotFails \in BOOLEAN :
        LET known == DocOf(r) # NoDoc
            d == IF known THEN DocOf(r) ELSE Len(wsdocs) + 1
        IN /\ request[c].phase = "idle"
           /\ \A b \in Conns : b < c => request[b].phase # "idle"
           /\ ~known => Len(wsdocs) < MaxDocs
           /\ Event(snapshotFails)
           /\ snapshotFails => /\ known
                               /\ wsdocs[d].isLoaded
                               /\ wsdocs[d].awareness # {}
           /\ LET H0 == [Hub EXCEPT !.ws[c] =
                           [NoWs EXCEPT !.roomId = r, !.userId = 1,
                                        !.readyState = "OPEN", !.doc = d]]
                  H1 == IF known THEN H0
                        ELSE [H0 EXCEPT !.wsdocs = Append(@, NewDoc(r, c))]
                  H2 == IF H1.wsdocs[d].isLoaded
                        THEN addConnection(H1, d, c, FALSE, snapshotFails)
                        ELSE [H1 EXCEPT !.wsdocs[d].waiters = Append(@, c)]
              IN SetHub(H2)
           /\ request' = [request EXCEPT ![c] =
                             [phase |-> "accepted", tok |-> "ok",
                              pidKind |-> "valid", pid |-> r, user |-> 1]]
           /\ status' = [status EXCEPT ![c] = SwitchingProtocols]
           /\ UNCHANGED <<projects, joinLog, writeFailed, inbox, replica, clientAw,
                          store, nextUpd, author, closeSeen, localAw>>

NextRooms ==
    \/ \E c \in Conns, r \in ProjectIds : JoinRoom(c, r)
    \/ \E c \in Conns : Leave(c)
    \/ \E d \in 1..MaxDocs : LoadFinish(d)
    \/ \E c \in Conns : Deliver(c)
    \/ \E t \in TimerIds : TimerFire(t)
    \/ \E t \in TimerIds : WriteDone(t)
    \/ \E c \in Conns : SendBreaks(c)
    \/ \E c \in Conns : ClientEdit(c)
    \/ \E c \in Conns : ClientPresence(c)
    \/ \E c \in Conns : ClientBad(c)
    \/ \E c \in Conns : ClientRecv(c)

SpecRooms == Init /\ [][NextRooms]_vars

\* ------------------------------------------ the join route and the gateway
\* POST /api/projects/join by user u: authMiddleware (401 without a valid
\* token), the validators (400 for an empty projectId or password), then
\* the handler.
PostJoin(u) ==
    \E tok \in {"bad", "ok"}, inp \in Inputs \cup {NoString},
       pw \in Passwords \cup {NoPassword}, strictQuery \in BOOLEAN,
       first \in ProjectIds \cup {None}, dbError \in BOOLEAN :
        LET handled == tok = "ok" /\ inp # NoString /\ pw # NoPassword
            byName == findOneByName(inp, strictQuery)
            free == {p \in ProjectIds : ~projects[p].exists}
            fresh == IF free = {} THEN None
                     ELSE CHOOSE p \in free : \A q \in free : p <= q
            r == IF tok # "ok"
                 THEN [status |-> 401, projects |-> projects, pid |-> None]
                 ELSE IF ~handled
                 THEN [status |-> 400, projects |-> projects, pid |-> None]
                 ELSE join(u, inp, pw, first, fresh, dbError)
        IN /\ Event(TRUE)
           /\ (tok # "ok") => (inp = NoString /\ pw = NoPassword)
           /\ ~handled => (~strictQuery /\ ~dbError)
           /\ IF handled /\ findById(inp) = None /\ byName # {}
              THEN first \in byName ELSE first = None
           /\ (r.status = 201) => fresh # None
           /\ projects' = r.projects
           /\ joinLog' = [n |-> joinLog.n + 1,
                          last |-> [user |-> u, tok |-> tok, input |-> inp,
                                    password |-> pw, dbError |-> dbError,
                                    status |-> r.status, pid |-> r.pid],
                          ok |-> IF r.status \in {200, 201}
                                 THEN joinLog.ok \cup {<<u, r.pid>>}
                                 ELSE joinLog.ok]
           /\ UNCHANGED <<hubVars, writeFailed, request, status, inbox,
                          replica, clientAw, store, nextUpd, author,
                          closeSeen, localAw>>

\* The URL y-websocket's WebsocketProvider(serverUrl, roomname, doc,
\* { params }) opens: the room name is the path, params are the query.
WebsocketProviderUrl(roomname, params) ==
    [path |-> roomname, query |-> params]

\* The token localStorage holds for a logged-in user.
jwtToken(u) == [verifies |-> TRUE, id |-> u]

\* What the 'upgrade' handler reads from request.url: query.token and
\* query.projectId; the path is not looked at.
parseRequest(u) ==
    LET q == u.query
        hasToken == "token" \in DOMAIN q
        hasId == "projectId" \in DOMAIN q
    IN [tok |-> IF ~hasToken THEN "none"
                ELSE IF ~q.token.verifies THEN "bad" ELSE "ok",
        pidKind |-> IF hasId THEN "valid" ELSE "none",
        pid |-> IF hasId THEN q.projectId ELSE 0,
        user |-> IF hasToken /\ q.token.verifies THEN q.token.id ELSE 1]

\* The editor page of user u mounts for project p and its provider
\* connects.
EditorOpen(c, u, p) ==
    LET token == jwtToken(u)
        provider == WebsocketProviderUrl(p, [token |-> token])
    IN \* connect: !!jwtToken
       /\ token.verifies
       /\ Upgrade(c, parseRequest(provider))

\* Channel-open requests of users holding a valid token, for any
\* well-formed project id.
TokenRequests ==
    {rq \in AllRequests : rq.tok = "ok" /\ rq.pidKind = "valid"}

NextProjects ==
    \/ \E u \in Users : PostJoin(u)
    \/ \E c \in Conns, rq \in TokenRequests : Upgrade(c, rq)
    \/ \E c \in Conns, u \in Users, p \in ProjectIds : EditorOpen(c, u, p)
    \/ \E c \in Conns : PermissionResult(c)

SpecProjects == Init /\ [][NextProjects]_vars

TypeOK ==
    /\ Len(wsdocs) <= MaxDocs
    /\ events \in 0..MaxEvents

\* ===================================================== properties
Instances == 1..Len(wsdocs)

Registered(c) == \E d \in Instances : c \in ConnsOf(Hub, d)

ArmedFor(r) == {t \in TimerIds : timers[t].st = "armed" /\ timers[t].room = r}

WritingFor(r) == {t \in TimerIds : timers[t].st = "writing" /\ timers[t].room = r}

\* Nothing is pending: no message in flight, no permission check or load
\* under way, no timer armed, no write in flight.
Quiescent ==
    /\ \A c \in Conns : /\ inbox[c] = <<>>
                        /\ outbox[c] = <<>>
                        /\ request[c].phase # "checking"
    /\ \A d \in Instances : wsdocs[d].isLoaded
    /\ \A t \in TimerIds : timers[t].st = "free"

\* The channel is open on both sides and served by the hub.
Live(c) == ws[c].readyState = "OPEN" /\ ws[c].listening /\ Registered(c)

\* C1 -- Convergence: once every message sent has been delivered, all
\* client replicas of the connections admitted to one room and the hub's
\* document of that room have the same content.
C1_Convergence ==
    Quiescent =>
        \A a, b \in Conns :
            (Live(a) /\ Live(b) /\ ws[a].roomId = ws[b].roomId) =>
                /\ replica[a] = replica[b]
                /\ wsdocs[ws[a].doc].content = replica[b]

\* C2 -- getYDoc returns the existing Room of a roomId: at every moment at
\* most one WSSharedDoc exists per roomId and every connection opened for
\* that roomId is bound to it.
C2_OneRoomPerId ==
    /\ \A d, e \in Instances : wsdocs[d].name = wsdocs[e].name => d = e
    /\ \A a, b \in Conns :
          (ws[a].doc # NoDoc /\ ws[b].doc # NoDoc
             /\ ws[a].roomId = ws[b].roomId) => ws[a].doc = ws[b].doc

\* A request that must not be admitted: no verified identity, no such
\* project, or the identity is not among the project's users.
Unauthorized(rq) ==
    \/ rq.tok # "ok"
    \/ rq.pidKind # "valid"
    \/ ~projects[rq.pid].exists
    \/ rq.user \notin projects[rq.pid].users

\* No Room was made, read or bound for connection c and nothing was sent.
Untouched(c) ==
    /\ ws[c] = NoWs
    /\ outbox[c] = <<>>
    /\ status[c] # SwitchingProtocols
    /\ \A d \in Instances : /\ wsdocs[d].by # c
                            /\ c \notin ConnsOf(Hub, d)
                            /\ \A i \in 1..Len(wsdocs[d].waiters) :
                                   wsdocs[d].waiters[i] # c

\* C3 -- Authorization gate: a channel-open request with a missing, invalid
\* or expired token, or of a non-member, or for a room that does not exist,
\* never causes getYDoc, addConnection, a store read or a send; once it is
\* answered the socket carries an error status.
C3_AuthorizationGate ==
    \A c \in Conns :
        (request[c].phase # "idle" /\ Unauthorized(request[c])) =>
            /\ Untouched(c)
            /\ request[c].phase \in {"checking", "rejected"}
            /\ request[c].phase = "rejected" => status[c] \in {400, 401, 403}

C3_Witness ==
    \E a, b \in Conns :
        /\ request[a].phase = "rejected" /\ status[a] = ForbiddenStatus
        /\ request[a].tok = "ok" /\ projects[request[a].pid].exists
        /\ Live(b) /\ wsdocs[ws[b].doc].content # {}

\* C4 -- No committed edit is lost: when the edits have stopped, the store
\* accepted every write and nothing is pending, the stored record of a room
\* contains every update applied to the room's document.
C4_NoEditLost ==
    (Quiescent /\ ~writeFailed) =>
        \A d \in Instances :
            wsdocs[d].content # {} =>
                /\ store[wsdocs[d].name].has
                /\ wsdocs[d].content \subseteq store[wsdocs[d].name].data

\* C5 -- Presence cleanup: after A's channel has closed, no presence entry
\* of A remains in the presence state of A's room, and no other open
\* connection of the room still shows it.
C5_PresenceCleanup ==
    Quiescent =>
        \A a \in Conns :
            closeSeen[a] =>
                /\ \A d \in Instances :
                      wsdocs[d].name = ws[a].roomId => a \notin wsdocs[d].awareness
                /\ \A b \in Conns :
                      (Live(b) /\ ws[b].roomId = ws[a].roomId) => a \notin clientAw[b]

\* A document of room r changes in this step.
Changed(r) ==
    \E d \in Instances :
        wsdocs[d].name = r /\ wsdocs'[d].content # wsdocs[d].content

\* C6 -- Debounce coalescing: a change of a room's document cancels the
\* room's armed timer and arms exactly one new one, so that the changes
\* made before the timer fires end in exactly one write.
C6_Coalescing ==
    [][\A r \in Rooms :
          Changed(r) =>
              Cardinality({t \in TimerIds : timers'[t].st = "armed"
                                            /\ timers'[t].room = r}) = 1]_vars

\* C7 -- At most one durable-store write is in flight per room.
C7_OneWriteInFlight == \A r \in Rooms : Cardinality(WritingFor(r)) <= 1

\* C8 -- Connection destruction: a connection whose channel has closed is
\* absent from its room's connection set once nothing is pending.
C8_ClosedConnectionGone ==
    Quiescent => \A c \in Conns : closeSeen[c] => ~Registered(c)

\* C9 -- For one connection, over close, error, send failure and malformed
\* message, removeConnection takes effect at most once.
C9_RemoveAtMostOnce == \A c \in Conns : removeCount[c] <= 1

C9_Witness == \E c \in Conns : removeCount[c] = 1 /\ removeNoop[c]

\* The failure class of a rejected request.
ReqClass(rq) ==
    IF rq.tok = "none" \/ rq.pidKind = "none" THEN "missing credentials"
    ELSE IF rq.tok # "ok" THEN "invalid token"
    ELSE IF rq.pidKind = "malformed" THEN "malformed room id"
    ELSE IF ~projects[rq.pid].exists THEN "room not found"
    ELSE IF rq.user \notin projects[rq.pid].users THEN "not a member"
    ELSE "lookup failed"

FourClasses ==
    {"missing credentials", "invalid token", "room not found", "not a member"}

Rejected(c) == request[c].phase = "rejected"

\* C10 as stated -- the classes missing credentials, invalid/expired token,
\* room not found and not a member end with four pairwise distinct reasons.
C10_FourDistinctReasons ==
    \A a, b \in Conns :
        (/\ Rejected(a) /\ Rejected(b)
         /\ ReqClass(request[a]) \in FourClasses
         /\ ReqClass(request[b]) \in FourClasses
         /\ ReqClass(request[a]) # ReqClass(request[b]))
            => status[a] # status[b]

\* The status line of each failure class.
ReasonOf(class) ==
    CASE class = "missing credentials" -> 400
      [] class = "malformed room id" -> 400
      [] class = "invalid token" -> 401
      [] OTHER -> 403

\* C10 as amended -- every rejected request ends with the status line of
\* its failure class: 400 for missing credentials, 401 for an invalid or
\* expired token, 403 for room not found and for not a member alike; these
\* three reasons are pairwise distinct.
C10_ThreeDistinctReasons ==
    \A a, b \in Conns :
        (Rejected(a) /\ Rejected(b)) =>
            /\ status[a] = ReasonOf(ReqClass(request[a]))
            /\ (/\ ReqClass(request[a]) \in FourClasses
                /\ ReqClass(request[b]) \in FourClasses
                /\ {ReqClass(request[a]), ReqClass(request[b])}
                       \notin {{"room not found", "not a member"},
                               {ReqClass(request[a])}})
                  => status[a] # status[b]

C10_Witness ==
    \E a, b \in Conns :
        /\ Rejected(a) /\ Rejected(b)
        /\ ReqClass(request[a]) = "room not found"
        /\ ReqClass(request[b]) = "not a member"
        /\ status[a] = status[b]

RegisteredIn(w, d, c) == \E i \in 1..Len(w[d].conns) : w[d].conns[i].conn = c

\* The message listener of c takes a message whose processing throws.
MalformedStep(c) ==
    /\ inbox[c] # <<>>
    /\ Head(inbox[c]).type = "bad"
    /\ ws[c].listening
    /\ inbox'[c] = Tail(inbox[c])
    /\ closeSeen'[c] = closeSeen[c]

\* C12 -- MalformedUpdate: when processing a message of connection c
\* throws, c is registered nowhere afterwards, no document content
\* changes, and every other connection (whose own sends work) keeps its
\* registration and its presence entry as they were.
C12_MalformedUpdate ==
    [][\A c \in Conns :
          MalformedStep(c) =>
              /\ \A d \in Instances :
                    /\ ~RegisteredIn(wsdocs', d, c)
                    /\ wsdocs'[d].content = wsdocs[d].content
              /\ \A b \in Conns \ {c} :
                    ~ws[b].sendFails =>
                        \A d \in Instances :
                            /\ (RegisteredIn(wsdocs', d, b) <=> RegisteredIn(wsdocs, d, b))
                            /\ ((b \in wsdocs'[d].awareness) <=> (b \in wsdocs[d].awareness))]_vars

C12_Witness ==
    \E c, b \in Conns :
        /\ b # c
        /\ caught[c] /\ removeCount[c] = 1 /\ ~closeSeen[c] /\ ~sendFailed[c]
        /\ ws[b].doc = ws[c].doc /\ Live(b)
        /\ b \in wsdocs[ws[b].doc].awareness

\* The promise of findOne settles for instance d in this step.
LoadStep(d) ==
    /\ ~wsdocs[d].isLoaded
    /\ \/ wsdocs'[d].isLoaded
       \/ wsdocs'[d].loadError
       \/ Len(wsdocs'[d].waiters) < Len(wsdocs[d].waiters)

\* C13 -- LoadFailure: when the lookup settles, failed or not, the load
\* completes with isLoaded set and nobody is left waiting; when the lookup
\* or the apply failed the document is empty; every waiting connection
\* whose channel is open, and for which neither the encoding nor the send
\* of sync step 1 throws, is registered and sent the initial sync.
C13_LoadFailure ==
       [][\A d \in Instances :
            LoadStep(d) =>
                /\ wsdocs'[d].isLoaded
                /\ wsdocs'[d].waiters = <<>>
                /\ wsdocs'[d].loadError => wsdocs'[d].content = {}
                /\ \A i \in 1..Len(wsdocs[d].waiters) :
                      LET c == wsdocs[d].waiters[i]
                      IN (/\ ws[c].readyState = "OPEN"
                          /\ ~ws[c].sendFails
                          /\ removeCount'[c] = removeCount[c])
                            => /\ RegisteredIn(wsdocs', d, c)
                               /\ outbox'[c] =
                                     Append(outbox[c],
                                            Msg("step1", wsdocs'[d].content, {}, {}))]_vars

C13_Witness ==
    \E d \in Instances, c \in Conns :
        /\ wsdocs[d].loadError /\ wsdocs[d].isLoaded /\ wsdocs[d].content = {}
        /\ store[wsdocs[d].name].has /\ store[wsdocs[d].name].data # {}
        /\ RegisteredIn(wsdocs, d, c) /\ ws[c].readyState = "OPEN"
        /\ outbox[c] # <<>> /\ Head(outbox[c]).type = "step1"

\* The write started by timer t settles in this step.
WriteSettles(t) == timers[t].st = "writing" /\ timers'[t].st # "writing"

C16_InitialSync ==
    Quiescent =>
        \A c \in Conns :
            Live(c) => wsdocs[ws[c].doc].content \subseteq replica[c]

\* Two updates made in this order by the client of one connection.
InOrder(u1, u2) ==
    u1 < u2 /\ author[u1] # NoConn /\ author[u1] = author[u2]

\* Update u is in a message the hub has sent to b and b has not taken yet.
InFlightTo(b, u) ==
    \E i \in 1..Len(outbox[b]) :
        outbox[b][i].type = "update" /\ u \in outbox[b][i].upd

\* Some message to b with u2 is ahead of one with u1.
Overtaken(b, u1, u2) ==
    \E i, j \in 1..Len(outbox[b]) :
        /\ i < j
        /\ outbox[b][i].type = "update" /\ outbox[b][j].type = "update"
        /\ u2 \in outbox[b][i].upd /\ u1 \notin outbox[b][i].upd
        /\ u1 \in outbox[b][j].upd

OwnersOf(d, id) == {c \in ConnsOf(Hub, d) : id \in IdsOf(Hub, d, c)}

\* C18 -- Presence ownership: every id in the presence state of a room is
\* in the controlled-id set of exactly one connection registered there.
C18_PresenceOwnership ==
    \A d \in Instances :
        \A id \in wsdocs[d].awareness : Cardinality(OwnersOf(d, id)) = 1

\* C19 -- Persistence record: the blob of every write holds every update
\* that had been applied to the room's document when the save was
\* scheduled.
C19_BlobCoversScheduled ==
    \A t \in TimerIds :
        timers[t].st = "writing" => timers[t].sched \subseteq timers[t].data

\* C20 -- Until its load has completed, an instance has merged no update
\* and applied no presence message of a peer, and has registered nobody.
C20_NothingBeforeLoaded ==
    \A d \in Instances :
        ~wsdocs[d].isLoaded =>
            /\ wsdocs[d].content = {}
            /\ wsdocs[d].pending = {}
            /\ wsdocs[d].awareness = {}
            /\ wsdocs[d].conns = <<>>

C20_Witness ==
    \E d \in Instances, c \in Conns :
        /\ ~wsdocs[d].isLoaded /\ ws[c].doc = d
        /\ ws[c].readyState = "OPEN"
        /\ replica[c] # {} /\ inbox[c] = <<>>
        /\ wsdocs[d].content = {}

\* addConnection runs for connection c in this step, past the wait.
AddStep(c) == ~ws[c].listening /\ ws'[c].listening

\* C21 -- a connection of an instance that is not loaded is not registered
\* and has been sent nothing; addConnection sends sync step 1 first and the
\* presence snapshot after it, and no snapshot when the sync send failed.
C21_SyncBeforeSnapshot ==
    [][/\ \A c \in Conns :
            (ws'[c].doc # NoDoc /\ ~wsdocs'[ws'[c].doc].isLoaded) =>
                /\ outbox'[c] = <<>>
                /\ \A d \in 1..Len(wsdocs') : ~RegisteredIn(wsdocs', d, c)
       /\ \A c \in Conns :
            AddStep(c) =>
                /\ outbox[c] = <<>>
                /\ Len(outbox'[c]) <= 2
                /\ Len(outbox'[c]) >= 1 => outbox'[c][1].type = "step1"
                /\ Len(outbox'[c]) = 2 => outbox'[c][2].type = "aw"
                /\ (ws[c].sendFails \/ ws[c].readyState = "CLOSED") =>
                       outbox'[c] = <<>>]_vars

C21_Witness ==
    \E c \in Conns :
        /\ Live(c) /\ Len(outbox[c]) = 2
        /\ outbox[c][1].type = "step1" /\ outbox[c][2].type = "aw"
        /\ outbox[c][2].add # {}

\* C22 -- removeConnection is idempotent: from any state of the hub, a
\* second call for the same connection changes no connection set and no
\* presence state, sends nothing and leaves the readyState of every socket
\* as the first call left it.
C22_RemoveIdempotent ==
    \A d \in Instances :
        \A c \in Conns :
            ws[c].readyState # "NONE" =>
                LET H1 == removeConnection(Hub, d, c)
                    H2 == removeConnection(H1, d, c)
                IN /\ H2.wsdocs = H1.wsdocs
                   /\ H2.outbox = H1.outbox
                   /\ H2.ws = H1.ws

C22_Witness ==
    \E c, b \in Conns :
        /\ b # c /\ ws[b].doc = ws[c].doc /\ Live(b)
        /\ caught[c] /\ removeNoop[c] /\ removeCount[c] = 1
        /\ ws[c].readyState \in {"CLOSING", "CLOSED"}

\* C23 -- removeConnection of a registered connection: from any state of
\* the hub, the call unregisters it, leaves none of the ids it controls in
\* the presence state, has sent the retraction of those that were there to
\* every connection that is still registered, and leaves the socket closing
\* or closed.
C23_RemoveConnection ==
    \A d \in Instances :
        \A c \in ConnsOf(Hub, d) :
            LET H1 == removeConnection(Hub, d, c)
                gone == IdsOf(Hub, d, c) \cap wsdocs[d].awareness
            IN /\ c \notin ConnsOf(H1, d)
               /\ IdsOf(Hub, d, c) \cap H1.wsdocs[d].awareness = {}
               /\ H1.wsdocs[d].awareness \subseteq wsdocs[d].awareness \ gone
               /\ H1.ws[c].readyState \in {"CLOSING", "CLOSED"}
               /\ \A b \in ConnsOf(H1, d) :
                     (gone # {} /\ ws[b].readyState = "OPEN") =>
                        \E i \in (Len(outbox[b]) + 1)..Len(H1.outbox[b]) :
                            H1.outbox[b][i] = Msg("aw", {}, {}, gone)

C23_Witness ==
    \E c, b \in Conns :
        /\ b # c /\ ws[b].doc = ws[c].doc /\ Live(b)
        /\ removeCount[c] = 1 /\ ~Registered(c)
        /\ \E i \in 1..Len(outbox[b]) :
              outbox[b][i].type = "aw" /\ outbox[b][i].rem = {c}

\* Number of copies of message m queued for a client.
Count(s, m) == Cardinality({i \in 1..Len(s) : s[i] = m})

\* C24: _updateHandler run with origin o on any reachable room queues the
\* update exactly once for every registered open connection other than o
\* and never for o; a registered connection whose send throws is removed,
\* and the connections whose send works are still served and stay
\* registered.
C24_BroadcastUpdate ==
    \A d \in Instances :
        \A o \in ConnsOf(Hub, d) \cup {NoConn} :
            \A u \in Updates :
                LET m == Msg("update", {u}, {}, {})
                    H1 == updateHandler(Hub, d, {u}, o)
                IN /\ (o # NoConn) => Count(H1.outbox[o], m) = Count(outbox[o], m)
                   /\ \A b \in ConnsOf(Hub, d) \ {o} :
                         IF ws[b].sendFails
                         THEN /\ b \notin ConnsOf(H1, d)
                              /\ H1.sendFailed[b]
                              /\ Count(H1.outbox[b], m) = Count(outbox[b], m)
                         ELSE /\ b \in ConnsOf(H1, d)
                              /\ (ws[b].readyState = "OPEN") =>
                                    Count(H1.outbox[b], m) = Count(outbox[b], m) + 1

\* An edit of o was broadcast: it is queued once for b and not for o.
C24_Witness ==
    \E o, b \in Conns :
        \E u \in Updates :
            /\ o # b /\ Live(o) /\ Live(b) /\ ws[o].doc = ws[b].doc
            /\ author[u] = o /\ u \in wsdocs[ws[o].doc].content
            /\ Count(outbox[b], Msg("update", {u}, {}, {})) = 1
            /\ \A i \in 1..Len(outbox[o]) : outbox[o][i].type # "update"

\* The socket of b takes what is sent to it.
Receiving(b) == ~ws[b].sendFails /\ ws[b].readyState = "OPEN"

\* C25: a presence diff (entry i set or cleared) received from a registered
\* connection o is queued
\* once for every other registered connection whose socket takes it and
\* is not queued for o; a retraction whose origin is no connection is
\* queued once for every registered connection whose socket takes it.
C25_BroadcastPresence ==
    \A d \in Instances :
        /\ \A o \in ConnsOf(Hub, d) :
              \A i \in Conns, sets \in BOOLEAN :
                 LET A == IF sets THEN {i} ELSE {}
                     R == IF sets THEN {} ELSE {i}
                     removed == (R \ A) \cap wsdocs[d].awareness
                     m == Msg("aw", {}, A, removed)
                     H1 == applyAwarenessUpdate(Hub, d, Msg("aw", {}, A, R), o)
                 IN (A \cup removed # {}) =>
                       /\ Count(H1.outbox[o], m) = Count(outbox[o], m)
                       /\ \A b \in ConnsOf(Hub, d) \ {o} :
                             Receiving(b) =>
                                Count(H1.outbox[b], m) = Count(outbox[b], m) + 1
        /\ \A ids \in (SUBSET wsdocs[d].awareness) \ {{}} :
              LET m == Msg("aw", {}, {}, ids)
                  H1 == removeAwarenessStates(Hub, d, ids, NoConn)
              IN \A b \in ConnsOf(Hub, d) :
                    Receiving(b) =>
                       Count(H1.outbox[b], m) = Count(outbox[b], m) + 1

\* The presence entry o announced is queued for b and nothing for o.
C25_Witness ==
    \E o, b \in Conns :
        /\ o # b /\ Live(o) /\ Live(b) /\ ws[o].doc = ws[b].doc
        /\ o \in IdsOf(Hub, ws[o].doc, o)
        /\ Count(outbox[b], Msg("aw", {}, {o}, {})) = 1
        /\ outbox[o] = <<>>

\* C26: a step in which updates are integrated into a document, whether
\* they come from a connection or from the blob read at construction,
\* ends with the room's debounce slot holding an armed timer for that
\* document, scheduled with the integrated updates.
C26_UpdateSchedulesSave ==
    [][\A d \in Instances :
          wsdocs'[d].content # wsdocs[d].content =>
              LET t == debouncedSave'[wsdocs[d].name]
              IN /\ t # NoTimer
                 /\ timers'[t].st = "armed" /\ timers'[t].doc = d
                 /\ timers'[t].room = wsdocs[d].name
                 /\ wsdocs'[d].content \subseteq timers'[t].sched]_vars

\* A save is armed for a document whose content is the stored blob and
\* whose clients hold none of it: the load scheduled it.
C26_Witness ==
    \E d \in Instances, t \in TimerIds :
        /\ wsdocs[d].isLoaded /\ wsdocs[d].content # {}
        /\ wsdocs[d].content = store[wsdocs[d].name].data
        /\ timers[t].st = "armed" /\ timers[t].doc = d
        /\ debouncedSave[wsdocs[d].name] = t
        /\ \A c \in Conns : ws[c].doc = d => replica[c] = {}

\* Store reads issued for room name r: loadPersistedData runs its findOne
\* once in the constructor of every instance.
StoreReads(r) == Cardinality({d \in Instances : wsdocs[d].name = r})

\* C27 -- One load per room: over any sequence of channel opens, closes
\* and errors for a roomId, at most one store read for it is issued.
C27_OneStoreRead == \A r \in ProjectIds : StoreReads(r) <= 1

\* The outcome C28 gives a request that fails a check before the lookup,
\* taking the checks in the stated order: 401 stands for Unauthenticated,
\* 400 for a request whose room id is missing or malformed.
StatedOutcome(rq) ==
    IF rq.tok = "none" THEN 401
    ELSE IF rq.pidKind = "none" THEN 400
    ELSE IF rq.tok # "ok" THEN 401
    ELSE IF rq.pidKind = "malformed" THEN 400
    ELSE 0

\* C28 -- Check order: the first failing check alone decides; a request
\* whose token is missing, invalid or expired is answered as
\* Unauthenticated without the membership lookup being started, and a
\* request that reaches the lookup and is refused is answered Forbidden.
C28_CheckOrder ==
    \A c \in Conns :
        LET rq == request[c]
        IN rq.phase # "idle" =>
              IF StatedOutcome(rq) # 0
              THEN rq.phase = "rejected" /\ status[c] = StatedOutcome(rq)
              ELSE /\ rq.phase \in {"checking", "rejected", "accepted"}
                   /\ rq.phase = "rejected" =>
                         /\ status[c] = ForbiddenStatus
                         /\ Unauthorized(rq) \/ events > 0

\* C29: when the presence update of a registered connection c sets entry
\* i and clears entry j, c's controlled ids gain i if i was not in the
\* presence state and lose j if it was there; an entry that was
\* there and is set again changes no set, and the controlled ids of
\* every other connection still registered are what they were (a
\* connection whose socket fails in the fan-out is removed with its set).
C29_ControlledIds ==
    \A d \in Instances :
        \A c \in ConnsOf(Hub, d) :
            \A i, j \in Conns \cup {NoConn} :
                LET A == {i} \ {NoConn}
                    R == {j} \ {NoConn}
                    cur == wsdocs[d].awareness
                    H1 == applyAwarenessUpdate(Hub, d, Msg("aw", {}, A, R), c)
                IN /\ (c \in ConnsOf(H1, d) \/ ~ws[c].sendFails) =>
                         /\ c \in ConnsOf(H1, d)
                         /\ IdsOf(H1, d, c) =
                               (IdsOf(Hub, d, c) \cup (A \ cur)) \ ((R \ A) \cap cur)
                   /\ \A b \in ConnsOf(H1, d) \ {c} :
                         IdsOf(H1, d, b) = IdsOf(Hub, d, b)

\* c announced its entry next to b: c controls it, b controls nothing.
C29_Witness ==
    \E c, b \in Conns :
        /\ c # b /\ ws[c].doc = ws[b].doc /\ Registered(c) /\ Registered(b)
        /\ wsdocs[ws[c].doc].awareness = {c}
        /\ IdsOf(Hub, ws[c].doc, c) = {c}
        /\ IdsOf(Hub, ws[c].doc, b) = {}

\* The channels opened for room r.
ConnsIn(r) == {c \in Conns : request[c].phase # "idle" /\ request[c].pid = r}

\* What the server holds for room r: its documents with their presence
\* state and connection sets, its debounce slot and timers, and what is
\* queued for its connections.
RoomState(r) ==
    [docs |-> {<<d, wsdocs[d]>> : d \in {x \in Instances : wsdocs[x].name = r}},
     slot |-> debouncedSave[r],
     timers |-> {<<t, timers[t]>> :
                    t \in {x \in TimerIds : timers[x].st # "free"
                                              /\ timers[x].room = r}},
     sent |-> [c \in ConnsIn(r) |-> outbox[c]]]

\* Everything an event in room r changes some of: the room's state, its
\* record, its sockets and the clients at their other end.
RoomScene(r) ==
    <<RoomState(r), store[r],
      [c \in ConnsIn(r) |-> <<ws[c], inbox[c], replica[c], clientAw[c],
                               localAw[c], closeSeen[c], caught[c],
                               sendFailed[c]>>]>>

\* C30 -- Per-room isolation: a step that is an event of room r1 (an
\* update, a presence change, a send failure, a malformed message, a load
\* or save that fails or not, a join or a leave) leaves the documents,
\* presence state, connection sets, debounce slot and timers of every
\* other room r2 as they were and queues nothing for r2's connections.
C30_RoomIsolation ==
    [][\A r1, r2 \in ProjectIds :
          (r1 # r2 /\ RoomScene(r1)' # RoomScene(r1)) =>
              RoomState(r2)' = RoomState(r2)]_vars

\* An update was applied and a malformed message met in one room while
\* another room has a live connection, an empty document and no timer.
C30_Witness ==
    \E c1, c2 \in Conns :
        /\ ws[c1].doc # NoDoc /\ ws[c2].doc # NoDoc
        /\ ws[c1].roomId # ws[c2].roomId
        /\ wsdocs[ws[c1].doc].content # {} /\ caught[c1]
        /\ debouncedSave[ws[c1].roomId] # NoTimer
        /\ Live(c2) /\ wsdocs[ws[c2].doc].content = {}
        /\ debouncedSave[ws[c2].roomId] = NoTimer

\* A join request is answered in this step; its record.
JoinStep == joinLog'.n = joinLog.n + 1
Answered == joinLog'.last

\* The projects the input of request e names, by _id or by the name they
\* were created with.
Matching(e) ==
    {p \in ProjectIds :
        /\ projects[p].exists
        /\ \/ e.input.form = "oid" /\ e.input.val = p
           \/ projects[p].projectId = e.input}

\* C31 -- Join route: a password that does not match the existing project
\* answers 400 and changes no project; a project is created only when no
\* project matches the input by id or by name, answering 201; joining an
\* existing project answers 200 and the user is in its members once.
C31_JoinRoute ==
    [][(/\ JoinStep
        /\ Answered.tok = "ok" /\ Answered.input # NoString
        /\ Answered.password # NoPassword /\ ~Answered.dbError) =>
          LET e == Answered
              created == {p \in ProjectIds :
                            projects'[p].exists /\ ~projects[p].exists}
          IN /\ \A p \in Matching(e) :
                   IF bcryptCompare(e.password, projects[p].password)
                   THEN /\ e.status = 200
                        /\ projects' = [projects EXCEPT ![p].users =
                                                           @ \cup {e.user}]
                   ELSE e.status = 400 /\ projects' = projects
             /\ (created # {}) => (Matching(e) = {} /\ e.status = 201)
             /\ (e.status = 201) => created # {}]_vars

\* The server socket of c takes the next message of its open channel.
Arrives(c) ==
    /\ inbox[c] # <<>> /\ inbox'[c] = Tail(inbox[c])
    /\ ws[c].readyState = "OPEN" /\ ws'[c].readyState # "CLOSED"

\* C32 -- No message is lost during the load: a message that arrives on
\* an accepted channel while addConnection waits for the load is kept and
\* processed once the load has completed, so a message leaves the channel
\* only into the message listener.
C32_NoMessageLostWhileLoading ==
    [][\A c \in Conns : Arrives(c) => ws[c].listening]_vars

\* The close listener or the error listener of connection c runs in this
\* step.
CloseOrErrorStep(c) ==
    /\ ws[c].listening
    /\ \/ ~closeSeen[c] /\ closeSeen'[c]
       \/ /\ ws[c].readyState = "OPEN" /\ ws'[c].readyState = "CLOSING"
          /\ events' = events + 1 /\ inbox' = inbox

\* C33 -- Close and error handling: the step constructs no WSSharedDoc,
\* which also means no store read, leaves every timer and the debounce
\* map as they are and changes the conns of the closing connection's
\* instance at most.
C33_CloseTouchesOnlyConnection ==
    [][\A c \in Conns :
          CloseOrErrorStep(c) =>
              /\ Len(wsdocs') = Len(wsdocs)
              /\ timers' = timers
              /\ debouncedSave' = debouncedSave
              /\ \A d \in Instances \ {ws[c].doc} : wsdocs'[d] = wsdocs[d]]_vars

\* C34 -- Timer bookkeeping: every room has at most one armed save timer,
\* and debouncedSave has an entry for the room exactly when the room has
\* an armed timer or a write in progress.
C34_TimerBookkeeping ==
    \A r \in ProjectIds :
        /\ Cardinality(ArmedFor(r)) <= 1
        /\ (debouncedSave[r] # NoTimer) <=>
              (ArmedFor(r) \cup WritingFor(r) # {})

\* C35 -- Stored state is monotonic: a write replaces the record of a room
\* by a blob that holds every update of the record it replaces.
C35_StoreMonotonic ==
    [][\A r \in ProjectIds :
          store'[r] # store[r] => store[r].data \subseteq store'[r].data]_vars

\* removeConnection has taken effect for connection c after a send to it
\* failed or a message of it could not be processed.
Removed(c) ==
    removeCount[c] > 0 /\ ~Registered(c) /\ (sendFailed[c] \/ caught[c])

\* C36 -- Only registered connections mutate a room: a message arriving
\* on the channel of a connection that was removed changes neither the
\* document nor the presence state of its instance, and every presence
\* entry a step creates has a registered owner.
C36_OnlyRegisteredMutate ==
    [][/\ \A c \in Conns :
            (Removed(c) /\ inbox[c] # <<>> /\ inbox'[c] = Tail(inbox[c])) =>
                LET d == ws[c].doc
                IN /\ wsdocs'[d].content = wsdocs[d].content
                   /\ wsdocs'[d].pending = wsdocs[d].pending
                   /\ wsdocs'[d].awareness = wsdocs[d].awareness
       /\ \A d \in Instances :
            \A id \in wsdocs'[d].awareness \ wsdocs[d].awareness :
                \E i \in 1..Len(wsdocs'[d].conns) :
                    id \in wsdocs'[d].conns[i].ids]_vars

\* The answer to the channel-open request of c in a state: nothing yet,
\* one rejection status and no socket, or the handshake with a socket that
\* carries the verified user id and the requested room id.
OneOutcome(c) ==
    CASE request[c].phase \in {"idle", "checking"} ->
            status[c] = 0 /\ ws[c] = NoWs
      [] request[c].phase = "rejected" ->
            /\ status[c] \in {400, 401, 403, 500}
            /\ ws[c] = NoWs
            /\ \A d \in Instances : wsdocs[d].by # c
      [] OTHER ->
            /\ status[c] = SwitchingProtocols
            /\ request[c].tok = "ok"
            /\ ws[c].userId = request[c].user
            /\ ws[c].roomId = request[c].pid
            /\ ws[c].doc # NoDoc /\ wsdocs[ws[c].doc].by = c

\* C37 -- One outcome per channel-open request: after every step each
\* request has a single outcome, a status line once written is never
\* followed by another or by a handshake, and the socket made by the
\* handshake keeps its user id, room id and instance.
C37_OneOutcome ==
    [][\A c \in Conns :
          /\ OneOutcome(c)'
          /\ (status[c] # 0) =>
                /\ status'[c] = status[c]
                /\ request'[c] = request[c]
          /\ (ws[c] # NoWs) =>
                /\ ws'[c].userId = ws[c].userId
                /\ ws'[c].roomId = ws[c].roomId
                /\ ws'[c].doc = ws[c].doc]_vars

\* One request was refused with 401 and another went through the
\* handshake and is served as the user and room it asked for.
C37_Witness ==
    \E a, b \in Conns :
        /\ request[a].phase = "rejected" /\ status[a] = 401 /\ ws[a] = NoWs
        /\ request[b].phase = "accepted" /\ status[b] = SwitchingProtocols
        /\ Live(b) /\ ws[b].roomId = request[b].pid

\* C38 -- The editor's request: the channel-open request the editor page
\* builds for a member u of an existing project p gets past the checks
\* made before the membership lookup and asks for room p.
C38_EditorRequestPasses ==
    \A p \in ProjectIds, u \in Users :
        (projects[p].exists /\ u \in projects[p].users) =>
            LET rq == parseRequest(
                        WebsocketProviderUrl(p, [token |-> jwtToken(u)]))
            IN /\ UpgradeStatus(rq.tok, rq.pidKind) = 0
               /\ rq.pid = p /\ rq.user = u
               /\ checkUserPermission(rq.user, rq.pid, FALSE)

\* The members the collection holds before any request to the join route.
Seeded(u, p) == p # 0 /\ u = 1

\* C39 -- Join and gateway agree on membership: a user whose join request
\* on project p answered 200 or 201 passes the gateway's membership check
\* for p, and a user who never joined p does not.
C39_JoinedIsMember ==
    \A u \in Users, p \in ProjectIds :
        /\ <<u, p>> \in joinLog.ok => checkUserPermission(u, p, FALSE)
        /\ (<<u, p>> \notin joinLog.ok /\ ~Seeded(u, p)) =>
               ~checkUserPermission(u, p, FALSE)

====
